---- MODULE Spec2Model ----
(***************************************************************************)
(* Model of populate_database.py: the two normalisation paths              *)
(* (process_spreadsheet_0, process_spreadsheets_1_and_2), the store        *)
(* (insert_into_database) and the driver (main).                           *)
(*                                                                         *)
(* A DataFrame is [columns |-> set of column names, rows |-> sequence of   *)
(* rows], a row being a function from the columns to cells.  Text cells    *)
(* are strings, the missing cell being NaN.  A quantity cell is a record   *)
(* [kind, num, str]: a number, a string (a sequence of characters) or NaN. *)
(* The value None of the code is the DataFrame None below.                 *)
(***************************************************************************)
EXTENDS Integers, Sequences, FiniteSets, TLC

VARIABLES
    pc,             \* position of main: "start" | "sheet0" | "sheet12" | "verify" | "done"
                    \* (SpecNorm: "input" before a path has run, "stored" after)
    dirExists,      \* os.path.exists(repo_dir)
    file0,          \* content of the file matched as spreadsheet 0 (see FileKinds)
    file1,          \* content of the file matched as spreadsheet 1
    file2,          \* content of the file matched as spreadsheet 2
    df0_formatted,  \* result of process_spreadsheet_0 in the current run
    df12_formatted, \* result of process_spreadsheets_1_and_2 in the current run
    table,          \* the shipments table of shipping_data.db
    openConns,      \* connections opened and not closed
    log,            \* messages printed in the current run
    run,            \* number of the current run of main
    rowsAfterRun1,  \* history: number of table rows when the first run ended
    connectFailed   \* history: some sqlite3.connect raised

vars == <<pc, dirExists, file0, file1, file2, df0_formatted, df12_formatted,
          table, openConns, log, run, rowsAfterRun1, connectFailed>>

-----------------------------------------------------------------------------
(* Bounds of the inputs.                                                   *)

MaxRows0 == 2
MaxRows1 == 2
MaxRows2 == 1
MaxMainRows0 == 1
MaxMainRows1 == 2
MaxMainRows2 == 1
MaxRuns == 2

-----------------------------------------------------------------------------
(* Cells.                                                                  *)

NaN == "NaN"
Unknown == "Unknown"

IntCell(n) == [kind |-> "int", num |-> n, str |-> <<>>]
StrCell(s) == [kind |-> "str", num |-> 0, str |-> s]
NaNCell == [kind |-> "nan", num |-> 0, str |-> <<>>]

DigitChars == <<"0", "1", "2", "3", "4", "5", "6", "7", "8", "9">>

IsDigit(c) == \E i \in 1..Len(DigitChars) : DigitChars[i] = c

DigitValue(c) == (CHOOSE i \in 1..Len(DigitChars) : DigitChars[i] = c) - 1

RECURSIVE ParseDigits(_)
ParseDigits(s) ==
    IF s = <<>> THEN 0
    ELSE 10 * ParseDigits(SubSeq(s, 1, Len(s) - 1)) + DigitValue(s[Len(s)])

\* pd.to_numeric(cell, errors="coerce") on one cell: a number stays, a string
\* of digits is parsed, any other string and the missing cell give NaN.
to_numeric(cell) ==
    IF cell.kind = "int" THEN cell
    ELSE IF cell.kind = "str" /\ cell.str # <<>> /\ \A i \in 1..Len(cell.str) : IsDigit(cell.str[i])
         THEN IntCell(ParseDigits(cell.str))
         ELSE NaNCell

\* .fillna(0).astype(int) on one cell of a numeric column.
fillna0_astype_int(cell) == IF cell.kind = "int" THEN cell.num ELSE 0

\* pd.to_numeric(col, errors="coerce").fillna(0).astype(int), cell by cell.
coerce_quantity(cell) == fillna0_astype_int(to_numeric(cell))

-----------------------------------------------------------------------------
(* DataFrames.                                                             *)

required_columns == {"shipment_identifier", "product", "quantity", "origin", "destination"}
key_columns_0 == {"shipment_identifier", "product", "quantity"}
key_columns_1 == {"shipment_identifier", "product", "quantity"}
key_columns_2 == {"shipment_identifier", "origin", "destination"}

None == [isNone |-> TRUE, columns |-> {}, rows |-> <<>>]
Frame(cols, rows) == [isNone |-> FALSE, columns |-> cols, rows |-> rows]

Msg(m, s, c) == [msg |-> m, src |-> s, cols |-> c]

Range(s) == {s[i] : i \in 1..Len(s)}

\* keep="last" in place of the default keep="first".
drop_duplicates_last(rows) ==
    LET keep == {i \in 1..Len(rows) :
                   \A j \in (i+1)..Len(rows) :
                      rows[j].shipment_identifier # rows[i].shipment_identifier}
        F[i \in 0..Len(rows)] ==
            IF i = 0 THEN <<>>
            ELSE IF i \in keep THEN Append(F[i-1], rows[i]) ELSE F[i-1]
    IN F[Len(rows)]

\* df.drop_duplicates(subset=["shipment_identifier"]): a row stays when no
\* earlier row has its identifier (NaN identifiers count as equal).
drop_duplicates(rows) ==
    LET keep == {i \in 1..Len(rows) :
                   \A j \in 1..(i-1) :
                      rows[j].shipment_identifier # rows[i].shipment_identifier}
        F[i \in 0..Len(rows)] ==
            IF i = 0 THEN <<>>
            ELSE IF i \in keep THEN Append(F[i-1], rows[i]) ELSE F[i-1]
    IN F[Len(rows)]

-----------------------------------------------------------------------------
(* Path A.                                                                 *)

\* The column check of a processing function (lines 42-44, 56-61): the
\* frame passes when it has every column of `needed`.
has_columns(df, needed) == needed \subseteq df.columns

\* A warning that lists the required columns in place of the frame's.
warning_with_required(df, source) ==
    Msg("Warning: Missing required columns", source, required_columns)

\* The warning printed when the check fails: it prints df.columns.
missing_columns_warning(df, source) ==
    Msg("Warning: Missing required columns", source, df.columns)

\* df[available_columns]
project(rows, cols) == [i \in 1..Len(rows) |-> [c \in cols |-> rows[i][c]]]

\* df["quantity"] = pd.to_numeric(df["quantity"], errors="coerce").fillna(0).astype(int)
coerce_column(rows) ==
    [i \in 1..Len(rows) |-> [rows[i] EXCEPT !["quantity"] = coerce_quantity(@)]]

process_spreadsheet_0(df) ==
    LET available_columns == required_columns \cap df.columns IN
    IF ~has_columns(df, key_columns_0)
    THEN [df |-> None, log |-> <<missing_columns_warning(df, "Spreadsheet 0")>>]
    ELSE [df |-> Frame(available_columns,
                       drop_duplicates(coerce_column(project(df.rows, available_columns)))),
          log |-> <<>>]

-----------------------------------------------------------------------------
(* Path B.                                                                 *)

\* The order of the text values, as sorted() orders them.
SortedText == <<"LA", "NY", "P1", "P2", "S1", "S2">>

Rank(s) == CHOOSE i \in 1..Len(SortedText) : SortedText[i] = s

KeyLess(a, b) ==
    \/ Rank(a[1]) < Rank(b[1])
    \/ a[1] = b[1] /\ Rank(a[2]) < Rank(b[2])

RECURSIVE SortKeys(_)
SortKeys(S) ==
    IF S = {} THEN <<>>
    ELSE LET m == CHOOSE k \in S : \A o \in S \ {k} : KeyLess(k, o)
         IN <<m>> \o SortKeys(S \ {m})

TypeError == [kind |-> "TypeError", num |-> 0, str |-> <<>>]

\* Python's a + b on two cells that are not missing.
py_add(a, b) ==
    IF a.kind = "int" /\ b.kind = "int" THEN IntCell(a.num + b.num)
    ELSE IF a.kind = "str" /\ b.kind = "str" THEN StrCell(a.str \o b.str)
    ELSE TypeError

\* .sum() of one group: missing cells are skipped, the others are added
\* with + in row order, and a group with no value sums to 0.
group_sum(cells) ==
    LET F[i \in 0..Len(cells)] ==
            IF i = 0 THEN NaNCell
            ELSE IF cells[i].kind = "nan" THEN F[i-1]
            ELSE IF F[i-1].kind = "nan" THEN cells[i]
            ELSE IF F[i-1].kind = "TypeError" THEN TypeError
            ELSE py_add(F[i-1], cells[i])
    IN IF F[Len(cells)].kind = "nan" THEN IntCell(0) ELSE F[Len(cells)]

\* The rows of one group, in row order.
group_cells(rows, key) ==
    LET F[i \in 0..Len(rows)] ==
            IF i = 0 THEN <<>>
            ELSE IF <<rows[i].shipment_identifier, rows[i].product>> = key
                 THEN Append(F[i-1], rows[i].quantity)
                 ELSE F[i-1]
    IN F[Len(rows)]

\* The group keys: rows with a missing key cell belong to no group.
group_keys(rows) ==
    {<<rows[i].shipment_identifier, rows[i].product>> : i \in
        {j \in 1..Len(rows) : rows[j].shipment_identifier # NaN /\ rows[j].product # NaN}}

\* df1.groupby(["shipment_identifier", "product"])["quantity"].sum().reset_index()
groupby_sum(rows) ==
    LET keys == SortKeys(group_keys(rows)) IN
    [i \in 1..Len(keys) |->
        [shipment_identifier |-> keys[i][1], product |-> keys[i][2],
         quantity |-> group_sum(group_cells(rows, keys[i]))]]

\* The sum raised in some group.
groupby_raises(rows) ==
    \E i \in 1..Len(groupby_sum(rows)) : groupby_sum(rows)[i].quantity.kind = "TypeError"

\* An inner join in place of the left join: unmatched left rows are lost.
merge_inner(left, right) ==
    LET joined(l, r) ==
            [shipment_identifier |-> l.shipment_identifier, product |-> l.product,
             quantity |-> l.quantity, origin |-> r.origin, destination |-> r.destination]
        matches(l) ==
            LET M[j \in 0..Len(right)] ==
                    IF j = 0 THEN <<>>
                    ELSE IF right[j].shipment_identifier = l.shipment_identifier
                         THEN Append(M[j-1], joined(l, right[j]))
                         ELSE M[j-1]
            IN M[Len(right)]
        F[i \in 0..Len(left)] ==
            IF i = 0 THEN <<>> ELSE F[i-1] \o matches(left[i])
    IN F[Len(left)]

\* pd.merge(left, right[[id, origin, destination]], on=id, how="left"):
\* each left row in order, once per matching right row in the right's order,
\* and once with missing origin and destination when nothing matches.
merge_left(left, right) ==
    LET joined(l, r) ==
            [shipment_identifier |-> l.shipment_identifier, product |-> l.product,
             quantity |-> l.quantity, origin |-> r.origin, destination |-> r.destination]
        unmatched(l) ==
            [shipment_identifier |-> l.shipment_identifier, product |-> l.product,
             quantity |-> l.quantity, origin |-> NaN, destination |-> NaN]
        matches(l) ==
            LET M[j \in 0..Len(right)] ==
                    IF j = 0 THEN <<>>
                    ELSE IF right[j].shipment_identifier = l.shipment_identifier
                         THEN Append(M[j-1], joined(l, right[j]))
                         ELSE M[j-1]
            IN M[Len(right)]
        F[i \in 0..Len(left)] ==
            IF i = 0 THEN <<>>
            ELSE F[i-1] \o (IF matches(left[i]) = <<>> THEN <<unmatched(left[i])>>
                            ELSE matches(left[i]))
    IN F[Len(left)]

\* A fillna that changes nothing: the missing cells stay.
fillna_nothing(rows) == rows

\* df_merged["origin"].fillna("Unknown", inplace=True), and the same for destination
fillna_unknown(rows) ==
    [i \in 1..Len(rows) |->
        [rows[i] EXCEPT !["origin"] = IF @ = NaN THEN Unknown ELSE @,
                        !["destination"] = IF @ = NaN THEN Unknown ELSE @]]

\* df_merged before line 72 drops the duplicates.
merged_rows(df1, df2) ==
    coerce_column(fillna_unknown(merge_left(groupby_sum(df1.rows), df2.rows)))

process_spreadsheets_1_and_2(df1, df2) ==
    IF ~has_columns(df1, key_columns_1)
    THEN [df |-> None, log |-> <<missing_columns_warning(df1, "Spreadsheet 1")>>]
    ELSE IF ~has_columns(df2, key_columns_2)
    THEN [df |-> None, log |-> <<missing_columns_warning(df2, "Spreadsheet 2")>>]
    ELSE IF groupby_raises(df1.rows)
    THEN [df |-> None, log |-> <<Msg("Error processing Spreadsheets 1 and 2", "", {})>>]
    ELSE [df |-> Frame(required_columns, drop_duplicates(merged_rows(df1, df2))),
          log |-> <<>>]

-----------------------------------------------------------------------------
(* The store.                                                              *)

NoTable == [exists |-> FALSE, rows |-> <<>>]

\* The row to_sql writes for a record: a column the frame lacks is NULL.
table_row(r) == [c \in required_columns |-> IF c \in DOMAIN r THEN r[c] ELSE NaN]

\* The PRIMARY KEY of create_table_sql rejects the batch: a record has the
\* identifier of a stored row or of an earlier record (NULLs never collide).
key_collision(batch, rows) ==
    \E i \in 1..Len(batch) :
        /\ batch[i].shipment_identifier # NaN
        /\ \/ \E j \in 1..Len(rows) :
                 rows[j].shipment_identifier = batch[i].shipment_identifier
           \/ \E j \in 1..(i-1) :
                 batch[j].shipment_identifier = batch[i].shipment_identifier

\* No rollback: the records before the first rejected one stay in the table.
rows_with_partial_append(batch, rows) ==
    LET F[i \in 0..Len(batch)] ==
            IF i = 0 THEN rows
            ELSE IF key_collision(SubSeq(batch, 1, i), rows) THEN F[i-1]
            ELSE Append(F[i-1], table_row(batch[i]))
    IN F[Len(batch)]

\* The rows a failed to_sql leaves in the table: its transaction is rolled back.
rows_after_failed_append(batch, rows) == rows

\* df.to_sql(table_name, conn, if_exists="append", index=False): one
\* transaction, rolled back when a row is rejected.
to_sql(batch, rows) ==
    IF key_collision(batch, rows)
    THEN [ok |-> FALSE, rows |-> rows_after_failed_append(batch, rows)]
    ELSE [ok |-> TRUE, rows |-> rows \o [i \in 1..Len(batch) |-> table_row(batch[i])]]

\* insert_into_database(df, db_name, table_name) on table tbl, connectOk
\* telling whether sqlite3.connect succeeds.  raised: an exception leaves the
\* function (conn.close() on the unbound conn, in the finally clause).
insert_into_database(df, tbl, connectOk) ==
    IF df.isNone \/ df.rows = <<>>
    THEN [table |-> tbl, log |-> <<Msg("No data to insert into database.", "", {})>>,
          raised |-> FALSE, connected |-> FALSE]
    ELSE IF ~connectOk
    THEN [table |-> tbl, log |-> <<Msg("Database error", "connect", {})>>,
          raised |-> TRUE, connected |-> FALSE]
    ELSE LET res == to_sql(df.rows, tbl.rows) IN
         [table |-> [exists |-> TRUE, rows |-> res.rows],
          log |-> <<IF res.ok THEN Msg("Inserted records", "", {})
                    ELSE Msg("Database error", "to_sql", {})>>,
          raised |-> FALSE, connected |-> TRUE]

\* insert_into_database attempts a connection for this frame.
connects(df) == ~df.isNone /\ df.rows # <<>>

-----------------------------------------------------------------------------
(* Input files.                                                            *)

Absent == [kind |-> "absent", df |-> None]
Corrupt == [kind |-> "corrupt", df |-> None]
Readable(df) == [kind |-> "ok", df |-> df]

\* read_spreadsheet(file_path): the frame, or None when reading raises.
read_spreadsheet(file) ==
    IF file.kind = "ok" THEN [df |-> file.df, log |-> <<>>]
    ELSE [df |-> None, log |-> <<Msg("Error reading", "", {})>>]

SeqsUpTo(S, n) == UNION {[1..k -> S] : k \in 0..n}

\* The frames with one of the column sets, rows drawn from the universe U.
FramesOver(colsets, U, n) ==
    UNION {{Frame(cols, rows) : rows \in SeqsUpTo({[c \in cols |-> r[c]] : r \in U}, n)} :
             cols \in colsets}

Quantities == {IntCell(2), StrCell(<<"3">>), StrCell(<<"x">>), NaNCell}

\* The routing cells of a row: both given or both missing.
Routes == {[origin |-> "NY", destination |-> "LA"], [origin |-> NaN, destination |-> NaN]}

Rows0 == {[shipment_identifier |-> i, product |-> "P1", quantity |-> q,
           origin |-> r.origin, destination |-> r.destination] :
             i \in {"S1", "S2"}, q \in Quantities, r \in Routes}
Rows1 == [shipment_identifier : {"S1", "S2"}, product : {"P1", "P2"}, quantity : Quantities]
Rows2 == {[shipment_identifier |-> i, origin |-> r.origin, destination |-> r.destination] :
             i \in {"S1", "S2"}, r \in Routes}

MainRows0 == [shipment_identifier : {"S1", "S2", NaN}, product : {"P1"}, quantity : {IntCell(2)},
              origin : {"NY"}, destination : {"LA"}]
MainRows1 == [shipment_identifier : {"S1", "S2", NaN}, product : {"P1"}, quantity : {IntCell(2)}]
MainRows2 == [shipment_identifier : {"S1"}, origin : {"NY"}, destination : {"LA"}]

-----------------------------------------------------------------------------
(* The normaliser on its own: one path per behaviour, the store fresh.     *)

InitNorm ==
    /\ pc = "input"
    /\ dirExists = TRUE
    /\ \/ /\ file0 \in {Readable(f) : f \in FramesOver(SUBSET required_columns, Rows0, MaxRows0)}
          /\ file1 = Absent
          /\ file2 = Absent
       \/ /\ file0 = Absent
          /\ file1 \in {Readable(f) : f \in FramesOver(SUBSET key_columns_1, Rows1, MaxRows1)}
          /\ file2 \in {Readable(f) : f \in FramesOver(SUBSET key_columns_2, Rows2, MaxRows2)}
    /\ df0_formatted = None
    /\ df12_formatted = None
    /\ table = NoTable
    /\ openConns = 0
    /\ log = <<>>
    /\ run = 1
    /\ rowsAfterRun1 = 0
    /\ connectFailed = FALSE

\* Lines 129-130 on a frame that was read.
NormalizeSheet0 ==
    /\ pc = "input"
    /\ file0.kind = "ok"
    /\ LET p == process_spreadsheet_0(file0.df)
           s == insert_into_database(p.df, table, TRUE)
       IN /\ df0_formatted' = p.df
          /\ table' = s.table
          /\ log' = log \o p.log \o s.log
    /\ pc' = "stored"
    /\ UNCHANGED <<dirExists, file0, file1, file2, df12_formatted, openConns, run,
                   rowsAfterRun1, connectFailed>>

\* Lines 142-143 on two frames that were read.
NormalizeSheets12 ==
    /\ pc = "input"
    /\ file1.kind = "ok" /\ file2.kind = "ok"
    /\ LET p == process_spreadsheets_1_and_2(file1.df, file2.df)
           s == insert_into_database(p.df, table, TRUE)
       IN /\ df12_formatted' = p.df
          /\ table' = s.table
          /\ log' = log \o p.log \o s.log
    /\ pc' = "stored"
    /\ UNCHANGED <<dirExists, file0, file1, file2, df0_formatted, openConns, run,
                   rowsAfterRun1, connectFailed>>

NextNorm == NormalizeSheet0 \/ NormalizeSheets12

SpecNorm == InitNorm /\ [][NextNorm]_vars

-----------------------------------------------------------------------------
(* Properties of the normaliser, checked under SpecNorm.                   *)

RanSheet0 == pc = "stored" /\ file0.kind = "ok"
RanSheets12 == pc = "stored" /\ file1.kind = "ok" /\ file2.kind = "ok"

Sheet0Accepted == RanSheet0 /\ has_columns(file0.df, key_columns_0)
Sheets12Accepted ==
    RanSheets12 /\ has_columns(file1.df, key_columns_1) /\ has_columns(file2.df, key_columns_2)

\* A quantity cell that is not a number: a string that is no numeral, or missing.
NotNumeric(cell) == to_numeric(cell).kind = "nan"

\* The sum of the coerced quantities of a sequence of cells.
RECURSIVE CoercedSum(_)
CoercedSum(cells) ==
    IF cells = <<>> THEN 0
    ELSE coerce_quantity(Head(cells)) + CoercedSum(Tail(cells))

\* The quantity cells of the rows of a group, taken from the source rows.
CellsOfGroup(rows, id, product) ==
    LET idx == {i \in 1..Len(rows) :
                  rows[i].shipment_identifier = id /\ rows[i].product = product}
        F[i \in 0..Len(rows)] ==
            IF i = 0 THEN <<>>
            ELSE IF i \in idx THEN Append(F[i-1], rows[i].quantity) ELSE F[i-1]
    IN F[Len(rows)]

\* C1 (as claimed): on Path B, with both column checks passed, the quantity
\* of every output record equals the sum of the coerced quantities of the
\* rows of its (shipment_identifier, product) group.
C1_QuantityIsSumOfCoerced ==
    Sheets12Accepted =>
        \A i \in 1..Len(df12_formatted.rows) :
            LET r == df12_formatted.rows[i] IN
            r.quantity = CoercedSum(CellsOfGroup(file1.df.rows, r.shipment_identifier, r.product))

\* out keeps, for each identifier of pre, exactly the first row of pre with it.
KeepsFirst(pre, out) ==
    /\ \A i, j \in 1..Len(out) :
          i # j => out[i].shipment_identifier # out[j].shipment_identifier
    /\ \A i \in 1..Len(out) :
          \E k \in 1..Len(pre) :
             /\ pre[k] = out[i]
             /\ \A m \in 1..(k-1) : pre[m].shipment_identifier # out[i].shipment_identifier
    /\ \A k \in 1..Len(pre) :
          \E i \in 1..Len(out) : out[i].shipment_identifier = pre[k].shipment_identifier

\* C2: the records a path returns hold each shipment_identifier at most once,
\* and the record kept for an identifier is the first row with it: in source
\* row order on Path A, in the order after aggregation and join on Path B.
C2_DedupKeepsFirst ==
    /\ (RanSheet0 /\ ~df0_formatted.isNone) =>
          KeepsFirst(coerce_column(project(file0.df.rows, df0_formatted.columns)),
                     df0_formatted.rows)
    /\ (RanSheets12 /\ ~df12_formatted.isNone) =>
          KeepsFirst(merged_rows(file1.df, file2.df), df12_formatted.rows)

\* C2 witness: Path A met two rows with one identifier and differing payload
\* and kept a single record.
C2_Witness ==
    /\ Sheet0Accepted
    /\ Len(file0.df.rows) = 2
    /\ file0.df.rows[1].shipment_identifier = file0.df.rows[2].shipment_identifier
    /\ file0.df.rows[1] # file0.df.rows[2]
    /\ Len(df0_formatted.rows) = 1

\* The identifiers of the groups of the first source.
GroupedIds(rows) ==
    {rows[i].shipment_identifier : i \in
        {j \in 1..Len(rows) : rows[j].shipment_identifier # NaN /\ rows[j].product # NaN}}

HasRoute(rows, id) == \E j \in 1..Len(rows) : rows[j].shipment_identifier = id

FirstRoute(rows, id) ==
    rows[CHOOSE j \in 1..Len(rows) :
            /\ rows[j].shipment_identifier = id
            /\ \A m \in 1..(j-1) : rows[m].shipment_identifier # id]

OrUnknown(cell) == IF cell = NaN THEN Unknown ELSE cell

\* C3: Path B is a left join.  Once the first source is grouped, every
\* identifier of a group is in the output; a record whose identifier has no
\* routing row has origin = destination = "Unknown", and one that has a
\* routing row takes both from that row (a missing cell reads "Unknown").
C3_LeftJoinUnknown ==
    (Sheets12Accepted /\ ~groupby_raises(file1.df.rows)) =>
        /\ ~df12_formatted.isNone
        /\ \A id \in GroupedIds(file1.df.rows) :
              \E i \in 1..Len(df12_formatted.rows) :
                 df12_formatted.rows[i].shipment_identifier = id
        /\ \A i \in 1..Len(df12_formatted.rows) :
              LET r == df12_formatted.rows[i] IN
              IF HasRoute(file2.df.rows, r.shipment_identifier)
              THEN LET t == FirstRoute(file2.df.rows, r.shipment_identifier) IN
                   /\ r.origin = OrUnknown(t.origin)
                   /\ r.destination = OrUnknown(t.destination)
              ELSE r.origin = Unknown /\ r.destination = Unknown

\* C3 witness: two identifiers were grouped, one with a routing row and one
\* without, and both are in the output.
C3_Witness ==
    /\ Sheets12Accepted
    /\ Len(df12_formatted.rows) = 2
    /\ Len(file2.df.rows) = 1
    /\ file2.df.rows[1].origin = "NY"
    /\ \E i, j \in 1..2 :
          /\ df12_formatted.rows[i].origin = "NY"
          /\ df12_formatted.rows[j].origin = Unknown
          /\ ~HasRoute(file2.df.rows, df12_formatted.rows[j].shipment_identifier)

\* The frame whose column check failed, and the columns the check wanted.
FailedCheck ==
    IF RanSheet0 THEN [src |-> "Spreadsheet 0", df |-> file0.df, needed |-> key_columns_0]
    ELSE IF ~has_columns(file1.df, key_columns_1)
    THEN [src |-> "Spreadsheet 1", df |-> file1.df, needed |-> key_columns_1]
    ELSE [src |-> "Spreadsheet 2", df |-> file2.df, needed |-> key_columns_2]

SchemaRejected ==
    \/ RanSheet0 /\ ~has_columns(file0.df, key_columns_0)
    \/ RanSheets12 /\ ~(has_columns(file1.df, key_columns_1) /\ has_columns(file2.df, key_columns_2))

NoRecordsNothingStored ==
    /\ df0_formatted.isNone
    /\ df12_formatted.isNone
    /\ table = NoTable

Warnings == {i \in 1..Len(log) : log[i].msg = "Warning: Missing required columns"}

\* C4 (as claimed): a frame that lacks a required column gives no records,
\* nothing is stored, and the report names exactly the missing columns.
C4_ReportNamesMissingColumns ==
    SchemaRejected =>
        /\ NoRecordsNothingStored
        /\ \E i \in Warnings :
              /\ log[i].src = FailedCheck.src
              /\ log[i].cols = FailedCheck.needed \ FailedCheck.df.columns

\* C4 (amended): a frame that lacks a required column gives no records,
\* nothing is stored, and the one warning printed names the first source
\* that failed its check and lists the columns that source has, none of
\* the missing ones among them.
C4_ReportNamesAvailableColumns ==
    SchemaRejected =>
        /\ NoRecordsNothingStored
        /\ Cardinality(Warnings) = 1
        /\ \A i \in Warnings :
              /\ log[i].src = FailedCheck.src
              /\ log[i].cols = FailedCheck.df.columns
              /\ log[i].cols \cap (FailedCheck.needed \ FailedCheck.df.columns) = {}

\* C4 witness: the first source of Path B lacks two columns and has a row.
C4_Witness ==
    /\ RanSheets12
    /\ file1.df.columns = {"product"}
    /\ file1.df.rows # <<>>
    /\ log # <<>>

\* C5 (as claimed): a quantity cell that is no number never fails the batch
\* and counts as 0: on Path A the record of such a row has quantity 0, on
\* Path B the record of a group made of such cells only has quantity 0.
C5_CoercionNeverFailsBatch ==
    /\ Sheet0Accepted =>
          /\ ~df0_formatted.isNone
          /\ \A i \in 1..Len(df0_formatted.rows) :
                \A k \in 1..Len(file0.df.rows) :
                   (/\ file0.df.rows[k].shipment_identifier =
                          df0_formatted.rows[i].shipment_identifier
                    /\ \A m \in 1..(k-1) : file0.df.rows[m].shipment_identifier #
                                              file0.df.rows[k].shipment_identifier
                    /\ NotNumeric(file0.df.rows[k].quantity))
                   => df0_formatted.rows[i].quantity = 0
    /\ Sheets12Accepted =>
          /\ ~df12_formatted.isNone
          /\ \A i \in 1..Len(df12_formatted.rows) :
                LET r == df12_formatted.rows[i]
                    cells == CellsOfGroup(file1.df.rows, r.shipment_identifier, r.product)
                IN (\A k \in 1..Len(cells) : NotNumeric(cells[k])) => r.quantity = 0

Records == Range(df0_formatted.rows) \cup Range(df12_formatted.rows)

\* C9 (as claimed): every record of either path, and every stored row, has an
\* integer quantity and an origin and a destination that are not null.
C9_RoutingNeverNull ==
    pc = "stored" =>
        /\ \A r \in Records :
              /\ r.quantity \in Int
              /\ {"origin", "destination"} \subseteq DOMAIN r
              /\ r.origin # NaN /\ r.destination # NaN
        /\ \A r \in Range(table.rows) :
              r.quantity \in Int /\ r.origin # NaN /\ r.destination # NaN

\* C9 (amended): every record of either path, and every stored row, has an
\* integer quantity.  A Path B record and its stored row have an origin and a
\* destination that are not null.  A Path A record carries origin and
\* destination only as the source has them: unchanged where the column is
\* there (a missing cell stays missing), no field and a NULL in the stored
\* row where the column is absent.
C9_RecordShape ==
    pc = "stored" =>
        /\ \A r \in Records : r.quantity \in Int
        /\ \A r \in Range(table.rows) : r.quantity \in Int
        /\ RanSheets12 =>
              /\ \A r \in Range(df12_formatted.rows) :
                    /\ DOMAIN r = required_columns
                    /\ r.origin # NaN /\ r.destination # NaN
              /\ \A r \in Range(table.rows) : r.origin # NaN /\ r.destination # NaN
        /\ RanSheet0 =>
              /\ \A r \in Range(df0_formatted.rows) :
                    /\ DOMAIN r = required_columns \cap file0.df.columns
                    /\ \E k \in 1..Len(file0.df.rows) :
                          \A c \in DOMAIN r \cap {"origin", "destination"} :
                             r[c] = file0.df.rows[k][c]
              /\ Len(table.rows) = Len(df0_formatted.rows)
              /\ \A i \in 1..Len(table.rows) :
                    \A c \in {"origin", "destination"} :
                       table.rows[i][c] = IF c \in file0.df.columns
                                          THEN df0_formatted.rows[i][c] ELSE NaN

\* C9 witness: Path A stored a record of a source that has a destination
\* column and no origin column, the quantity coerced from a string.
C9_Witness ==
    /\ Sheet0Accepted
    /\ file0.df.columns = required_columns \ {"origin"}
    /\ file0.df.rows # <<>>
    /\ file0.df.rows[1].quantity.kind = "str"
    /\ table.rows # <<>>
    /\ table.rows[1].origin = NaN
    /\ table.rows[1].destination = "LA"

-----------------------------------------------------------------------------
(* main.                                                                   *)

MainFiles0 ==
    {Absent, Corrupt} \cup
    {Readable(f) : f \in FramesOver({required_columns, {"shipment_identifier", "product"}},
                                    MainRows0, MaxMainRows0)}
MainFiles1 ==
    {Absent, Corrupt} \cup
    {Readable(f) : f \in FramesOver({key_columns_1}, MainRows1, MaxMainRows1)}
MainFiles2 ==
    {Absent, Corrupt} \cup
    {Readable(f) : f \in FramesOver({key_columns_2}, MainRows2, MaxMainRows2)}

Init ==
    /\ pc = "start"
    /\ dirExists \in BOOLEAN
    /\ file0 \in MainFiles0
    /\ file1 \in MainFiles1
    /\ file2 \in MainFiles2
    /\ df0_formatted = None
    /\ df12_formatted = None
    /\ table = NoTable
    /\ openConns = 0
    /\ log = <<>>
    /\ run = 1
    /\ rowsAfterRun1 = 0
    /\ connectFailed = FALSE

Say(m) == Msg(m, "", {})

\* History kept as main returns: the size of the table after the first run.
Returns(tbl) == rowsAfterRun1' = IF run = 1 THEN Len(tbl.rows) ELSE rowsAfterRun1

\* Lines 96-122: the directory and the files found in it.
Discover ==
    /\ pc = "start"
    /\ IF ~dirExists
       THEN /\ log' = log \o <<Say("Error: Directory does not exist.")>>
            /\ pc' = "done"
            /\ Returns(table)
       ELSE IF file0 = Absent /\ file1 = Absent /\ file2 = Absent
       THEN /\ log' = log \o <<Say("Error: No .xlsx or .csv files found")>>
            /\ pc' = "done"
            /\ Returns(table)
       ELSE /\ log' = log
            /\ pc' = "sheet0"
            /\ UNCHANGED rowsAfterRun1
    /\ UNCHANGED <<dirExists, file0, file1, file2, df0_formatted, df12_formatted, table,
                   openConns, run, connectFailed>>

\* Lines 124-134, and lines 160-161 when insert_into_database raises.
ProcessSheet0 ==
    /\ pc = "sheet0"
    /\ IF file0 = Absent
       THEN /\ log' = log \o <<Say("Spreadsheet 0 not found.")>>
            /\ pc' = "sheet12"
            /\ UNCHANGED <<df0_formatted, table, connectFailed, rowsAfterRun1>>
       ELSE LET r == read_spreadsheet(file0) IN
            IF r.df.isNone
            THEN /\ log' = log \o <<Say("Processing Spreadsheet 0")>> \o r.log
                              \o <<Say("Failed to process Spreadsheet 0.")>>
                 /\ pc' = "sheet12"
                 /\ UNCHANGED <<df0_formatted, table, connectFailed, rowsAfterRun1>>
            ELSE LET p == process_spreadsheet_0(r.df) IN
                 \E connectOk \in IF connects(p.df) THEN BOOLEAN ELSE {TRUE} :
                    LET s == insert_into_database(p.df, table, connectOk) IN
                    /\ df0_formatted' = p.df
                    /\ table' = s.table
                    /\ connectFailed' = (connectFailed \/ ~connectOk)
                    /\ IF s.raised
                       THEN /\ log' = log \o <<Say("Processing Spreadsheet 0")>> \o p.log
                                         \o s.log \o <<Say("Main error")>>
                            /\ pc' = "done"
                            /\ Returns(s.table)
                       ELSE /\ log' = log \o <<Say("Processing Spreadsheet 0")>> \o p.log
                                         \o s.log
                            /\ pc' = "sheet12"
                            /\ UNCHANGED rowsAfterRun1
    /\ UNCHANGED <<dirExists, file0, file1, file2, df12_formatted, openConns, run>>

\* Lines 136-147, and lines 160-161 when insert_into_database raises.
ProcessSheets12 ==
    /\ pc = "sheet12"
    /\ IF file1 = Absent \/ file2 = Absent
       THEN /\ log' = log \o <<Say("Spreadsheet 1 or 2 not found.")>>
            /\ pc' = "verify"
            /\ UNCHANGED <<df12_formatted, table, connectFailed, rowsAfterRun1>>
       ELSE LET r1 == read_spreadsheet(file1)
                r2 == read_spreadsheet(file2)
            IN
            IF r1.df.isNone \/ r2.df.isNone
            THEN /\ log' = log \o <<Say("Processing Spreadsheets 1 and 2")>> \o r1.log
                              \o r2.log \o <<Say("Failed to process Spreadsheets 1 or 2.")>>
                 /\ pc' = "verify"
                 /\ UNCHANGED <<df12_formatted, table, connectFailed, rowsAfterRun1>>
            ELSE LET p == process_spreadsheets_1_and_2(r1.df, r2.df) IN
                 \E connectOk \in IF connects(p.df) THEN BOOLEAN ELSE {TRUE} :
                    LET s == insert_into_database(p.df, table, connectOk) IN
                    /\ df12_formatted' = p.df
                    /\ table' = s.table
                    /\ connectFailed' = (connectFailed \/ ~connectOk)
                    /\ IF s.raised
                       THEN /\ log' = log \o <<Say("Processing Spreadsheets 1 and 2")>>
                                         \o p.log \o s.log \o <<Say("Main error")>>
                            /\ pc' = "done"
                            /\ Returns(s.table)
                       ELSE /\ log' = log \o <<Say("Processing Spreadsheets 1 and 2")>>
                                         \o p.log \o s.log
                            /\ pc' = "verify"
                            /\ UNCHANGED rowsAfterRun1
    /\ UNCHANGED <<dirExists, file0, file1, file2, df0_formatted, openConns, run>>

\* Lines 149-158: conn.close() is reached only when pd.read_sql returns.
Verify ==
    /\ pc = "verify"
    /\ \E connectOk \in BOOLEAN :
          /\ connectFailed' = (connectFailed \/ ~connectOk)
          /\ IF ~connectOk
             THEN /\ log' = log \o <<Msg("Database verification error", "connect", {})>>
                  /\ openConns' = openConns
             ELSE IF ~table.exists
             THEN /\ log' = log \o <<Msg("Database verification error", "read_sql", {})>>
                  /\ openConns' = openConns + 1
             ELSE /\ log' = log \o <<Say("Sample data from database:")>>
                  /\ openConns' = openConns
    /\ pc' = "done"
    /\ Returns(table)
    /\ UNCHANGED <<dirExists, file0, file1, file2, df0_formatted, df12_formatted, table, run>>

\* The script is run again on the same directory; the process that ended
\* took its connections with it.
Rerun ==
    /\ pc = "done"
    /\ run < MaxRuns
    /\ run' = run + 1
    /\ pc' = "start"
    /\ log' = <<>>
    /\ df0_formatted' = None
    /\ df12_formatted' = None
    /\ openConns' = 0
    /\ UNCHANGED <<dirExists, file0, file1, file2, table, rowsAfterRun1, connectFailed>>

Next == Discover \/ ProcessSheet0 \/ ProcessSheets12 \/ Verify \/ Rerun

Spec == Init /\ [][Next]_vars

-----------------------------------------------------------------------------
(* Properties of the store and of main, checked under Spec.                *)

Printed(m) == \E i \in 1..Len(log) : log[i].msg = m

\* A record of the batch has an identifier that a stored row has.
KeyPresent(batch, rows) ==
    \E i \in 1..Len(batch) :
        /\ batch[i].shipment_identifier # NaN
        /\ \E j \in 1..Len(rows) :
              rows[j].shipment_identifier = batch[i].shipment_identifier

\* One call of insert_into_database with the batch df took table t to t2.
AppendIsAtomic(df, t, t2, printed) ==
    df.rows # <<>> =>
        /\ \/ t2.rows = t.rows
           \/ t2.rows = t.rows \o [i \in 1..Len(df.rows) |-> table_row(df.rows[i])]
        /\ KeyPresent(df.rows, t.rows) =>
              /\ t2.rows = t.rows
              /\ \E i \in (Len(log) + 1)..Len(printed) : printed[i].msg = "Database error"

\* C6: a call of insert_into_database with a batch that is not empty adds
\* every record of the batch to the table or none; when a record of the
\* batch has a (non-null) identifier that is in the table already, the call
\* reports a storage error and leaves the rows of the table as they were.
C6_AtomicAppend ==
    [][/\ pc = "sheet0" => AppendIsAtomic(df0_formatted', table, table', log')
       /\ pc = "sheet12" => AppendIsAtomic(df12_formatted', table, table', log')]_vars

\* C6 witness: Path B's batch of two records, one with an identifier Path A
\* stored and one with a new identifier, was rejected whole.
C6_Witness ==
    /\ pc = "verify"
    /\ Len(df12_formatted.rows) = 2
    /\ Len(df0_formatted.rows) = 1
    /\ table.rows = <<table_row(df0_formatted.rows[1])>>
    /\ \E i, j \in 1..2 :
          /\ df12_formatted.rows[i].shipment_identifier = table.rows[1].shipment_identifier
          /\ df12_formatted.rows[j].shipment_identifier # table.rows[1].shipment_identifier
    /\ \E i \in 1..Len(log) : log[i] = Msg("Database error", "to_sql", {})

\* C7 (as claimed): when main returns, a failure of Path A has not kept
\* Path B from being processed: with the directory and the files of
\* spreadsheets 1 and 2 there, Path B was entered, and when both were read
\* its records were normalised.
C7_OtherPathStillProcessed ==
    (pc = "done" /\ dirExists /\ file1 # Absent /\ file2 # Absent) =>
        /\ Printed("Processing Spreadsheets 1 and 2")
        /\ (file1.kind = "ok" /\ file2.kind = "ok") =>
              df12_formatted = process_spreadsheets_1_and_2(file1.df, file2.df).df

\* C8 (as claimed): when main returns no connection is open, and no release
\* raised (the only exception that reaches line 160 is conn.close() on the
\* unbound conn of line 93).
C8_ConnectionsReleased ==
    pc = "done" => (openConns = 0 /\ ~Printed("Main error"))

\* The batches of the two paths share an identifier.
BatchesShareKey ==
    \E r \in Range(df0_formatted.rows) : \E q \in Range(df12_formatted.rows) :
        r.shipment_identifier = q.shipment_identifier

\* C10 (as claimed): no two rows of the table share a shipment_identifier;
\* when the batches of the first run share an identifier the table holds
\* Path A's records only; a second run over the same files adds no row.
\* (Runs in which sqlite3.connect failed are left out of the last two.)
C10_TableKeyUnique ==
    /\ \A i, j \in 1..Len(table.rows) :
          i # j => table.rows[i].shipment_identifier # table.rows[j].shipment_identifier
    /\ (pc = "done" /\ run = 1 /\ ~connectFailed /\ BatchesShareKey) =>
          table.rows = [i \in 1..Len(df0_formatted.rows) |-> table_row(df0_formatted.rows[i])]
    /\ (pc = "done" /\ run > 1 /\ ~connectFailed) => Len(table.rows) = rowsAfterRun1

====
